---- MODULE Spec2Model ----
(***************************************************************************)
(* Model of src/student_attendance.py: the AttendanceRecord validation and *)
(* the AttendanceDB store (load, add_record, list_records,                 *)
(* student_monthly_percentage, export_csv).                                *)
(*                                                                         *)
(* Python strings are sequences of one-character strings, so that strip,   *)
(* title, capitalize, lower, string comparison and strptime are computed   *)
(* character by character as the library computes them.                    *)
(***************************************************************************)
EXTENDS Integers, Sequences, FiniteSets, TLC

VARIABLES
    fs,       \* the file system: path -> file content
    folders,  \* the directories that exist
    attrs,    \* the attributes set on the AttendanceDB object (self)
    path,     \* self.path, meaningful when "path" \in attrs
    _data,    \* self._data, meaningful when "_data" \in attrs
    last      \* the last call: operation, arguments, exception raised, value
              \* returned, and the object and its backing file before the call

vars == <<fs, folders, attrs, path, _data, last>>

(***************************************************************************)
(* Characters and the str methods the code uses.                           *)
(***************************************************************************)
LowerLetters == <<"a", "b", "e", "l", "n", "p", "r", "s", "t", "x">>
UpperLetters == <<"A", "B", "E", "L", "N", "P", "R", "S", "T", "X">>
Digits == <<"0", "1", "2", "3", "4", "5", "6", "7", "8", "9">>
Whitespace == {" "}

Range(s) == {s[k] : k \in 1..Len(s)}
IndexOf(s, c) == CHOOSE k \in 1..Len(s) : s[k] = c

LowerSet == Range(LowerLetters)
UpperSet == Range(UpperLetters)
DigitSet == Range(Digits)
ToUpper == [c \in LowerSet |-> UpperLetters[IndexOf(LowerLetters, c)]]
ToLower == [c \in UpperSet |-> LowerLetters[IndexOf(UpperLetters, c)]]
ToDigit == [c \in DigitSet |-> IndexOf(Digits, c) - 1]
\* The position of each letter in the alphabet.
AlphabetPos == <<1, 2, 5, 12, 14, 16, 18, 19, 20, 24>>
CodeOfLetter ==
    [c \in LowerSet \cup UpperSet |->
        IF c \in UpperSet THEN 64 + AlphabetPos[IndexOf(UpperLetters, c)]
        ELSE 96 + AlphabetPos[IndexOf(LowerLetters, c)]]

IsLower(c) == c \in LowerSet
IsUpper(c) == c \in UpperSet
IsCased(c) == IsLower(c) \/ IsUpper(c)
IsDigit(c) == c \in DigitSet
DigitVal(c) == ToDigit[c]

upper(c) == IF IsLower(c) THEN ToUpper[c] ELSE c
lower(c) == IF IsUpper(c) THEN ToLower[c] ELSE c

\* The code point of a character (str comparison compares code points).
Ord(c) ==
    IF c = " " THEN 32
    ELSE IF c = "'" THEN 39
    ELSE IF c = "," THEN 44
    ELSE IF c = "-" THEN 45
    ELSE IF IsDigit(c) THEN 48 + DigitVal(c)
    ELSE CodeOfLetter[c]

\* Mutant of Strip: at most one whitespace character removed at each end.
StripOne(s) ==
    LET a == IF s # <<>> /\ Head(s) \in Whitespace THEN Tail(s) ELSE s
    IN  IF a # <<>> /\ a[Len(a)] \in Whitespace THEN SubSeq(a, 1, Len(a) - 1) ELSE a

\* str.strip(): leading and trailing whitespace removed.
Strip(s) ==
    LET keep == {k \in 1..Len(s) : s[k] \notin Whitespace}
    IN  IF keep = {} THEN <<>>
        ELSE LET i == CHOOSE k \in keep : \A m \in keep : k <= m
                 j == CHOOSE k \in keep : \A m \in keep : k >= m
             IN  SubSeq(s, i, j)

\* str.title(): a cased character is upper-cased when the character before it
\* is not cased (or there is none), lower-cased otherwise.
Title(s) ==
    [k \in 1..Len(s) |->
        IF ~IsCased(s[k]) THEN s[k]
        ELSE IF k > 1 /\ IsCased(s[k - 1]) THEN lower(s[k]) ELSE upper(s[k])]

\* str.capitalize(): first character upper-cased, the rest lower-cased.
Capitalize(s) == [k \in 1..Len(s) |-> IF k = 1 THEN upper(s[k]) ELSE lower(s[k])]

\* str.lower()
Lower(s) == [k \in 1..Len(s) |-> lower(s[k])]

\* a < b for str: the first differing code point decides, a proper prefix is smaller.
RECURSIVE StrLess(_, _)
StrLess(a, b) ==
    IF b = <<>> THEN FALSE
    ELSE IF a = <<>> THEN TRUE
    ELSE IF Ord(Head(a)) # Ord(Head(b)) THEN Ord(Head(a)) < Ord(Head(b))
    ELSE StrLess(Tail(a), Tail(b))

\* a <= b and a >= b for str
StrLe(a, b) == ~StrLess(b, a)
StrGe(a, b) == ~StrLess(a, b)

(***************************************************************************)
(* datetime.strptime(s, "%Y-%m-%d").date()                                 *)
(***************************************************************************)
\* %m matches 1[0-2] | 0[1-9] | [1-9]
MonthToken(t) ==
    \/ Len(t) = 2 /\ t[1] = "1" /\ t[2] \in {"0", "1", "2"}
    \/ Len(t) = 2 /\ t[1] = "0" /\ IsDigit(t[2]) /\ t[2] # "0"
    \/ Len(t) = 1 /\ IsDigit(t[1]) /\ t[1] # "0"

\* %d matches 3[01] | [12]\d | 0[1-9] | [1-9] | " "[1-9]
DayToken(t) ==
    \/ Len(t) = 2 /\ t[1] = "3" /\ t[2] \in {"0", "1"}
    \/ Len(t) = 2 /\ t[1] \in {"1", "2"} /\ IsDigit(t[2])
    \/ Len(t) = 2 /\ t[1] \in {"0", " "} /\ IsDigit(t[2]) /\ t[2] # "0"
    \/ Len(t) = 1 /\ IsDigit(t[1]) /\ t[1] # "0"

RECURSIVE IntOf(_)
IntOf(t) ==
    IF t = <<>> THEN 0
    ELSE IF IsDigit(t[Len(t)]) THEN 10 * IntOf(SubSeq(t, 1, Len(t) - 1)) + DigitVal(t[Len(t)])
    ELSE IntOf(SubSeq(t, 1, Len(t) - 1))

IsLeap(y) == y % 4 = 0 /\ (y % 100 # 0 \/ y % 400 = 0)
DaysInMonth(y, m) ==
    IF m = 2 THEN (IF IsLeap(y) THEN 29 ELSE 28)
    ELSE IF m \in {4, 6, 9, 11} THEN 30 ELSE 31

NoDate == [ok |-> FALSE, year |-> 0, month |-> 0, day |-> 0]

\* ok is FALSE where strptime raises ValueError: no match of the format,
\* unconverted data, or a day or year out of range.
strptime(s) ==
    IF Len(s) < 8 THEN NoDate
    ELSE IF ~(\A k \in 1..4 : IsDigit(s[k])) \/ s[5] # "-" THEN NoDate
    ELSE LET dashes == {k \in 6..Len(s) : s[k] = "-"}
         IN  IF dashes = {} THEN NoDate
             ELSE LET d2 == CHOOSE k \in dashes : \A m \in dashes : k <= m
                      mt == SubSeq(s, 6, d2 - 1)
                      dt == SubSeq(s, d2 + 1, Len(s))
                  IN  IF ~MonthToken(mt) \/ ~DayToken(dt) THEN NoDate
                      ELSE LET y == IntOf(SubSeq(s, 1, 4))
                               m == IntOf(mt)
                               d == IntOf(dt)
                           IN  IF y < 1 \/ d > DaysInMonth(y, m) THEN NoDate
                               ELSE [ok |-> TRUE, year |-> y, month |-> m, day |-> d]

(***************************************************************************)
(* Program constants and the values the calls are made with.               *)
(***************************************************************************)
PRESENT == <<"P", "r", "e", "s", "e", "n", "t">>
ABSENT == <<"A", "b", "s", "e", "n", "t">>
LATE == <<"L", "a", "t", "e">>
VALID_STATUSES == <<PRESENT, ABSENT, LATE>>

DB_PATH == "data/attendance.json"
CSV_PATH == "attendance_export.csv"
Paths == {DB_PATH, CSV_PATH}

\* os.path.dirname
dirname(p) == IF p = DB_PATH THEN "data" ELSE ""

fieldnames == <<"student_name", "date", "status", "remarks">>

\* The longest record list a backing file holds at the start.
MaxFileRecs == 3

D_0824 == <<"2", "0", "2", "5", "-", "0", "8", "-", "2", "4">>
D_8_25 == <<"2", "0", "2", "5", "-", "8", "-", "2", "5">>
D_DMY  == <<"2", "4", "-", "0", "8", "-", "2", "0", "2", "5">>
D_FEB30 == <<"2", "0", "2", "5", "-", "0", "2", "-", "3", "0">>

\* Arguments of add_record: raw, as typed.
RawNames == { <<"a", " ", "b">>, <<" ", " ", "b", "A">>, <<" ">> }
RawDates == { <<" ">> \o D_0824 \o <<" ">>, D_FEB30 }
RawStatuses ==
    { <<"p", "r", "e", "s", "e", "n", "t">>, <<" ", "A", "B", "S", "E", "N", "T">>, <<"x">> }
RawRemarks == { <<" ">>, <<"x">> }

Rec(n, d, s, r) == [student_name |-> n, date |-> d, status |-> s, remarks |-> r]

\* The records a backing file may hold at the start.
StoredRecs ==
    { Rec(<<"A", " ", "B">>, D_0824, PRESENT, <<>>),
      Rec(<<"B", "a">>, D_0824, ABSENT, <<"x">>),
      Rec(<<"A", " ", "B">>, D_8_25, LATE, <<>>),
      Rec(<<"A", " ", "B">>, D_DMY, PRESENT, <<>>) }

SeqsUpTo(S, n) == UNION {[1..k -> S] : k \in 0..n}

\* No two records of a list with the same (lower-cased name, date).
UniqueKeys(data) ==
    \A i, j \in 1..Len(data) :
        (/\ Lower(data[i].student_name) = Lower(data[j].student_name)
         /\ data[i].date = data[j].date) => i = j

\* Optional arguments: None, or a str.
None == [none |-> TRUE, v |-> <<>>]
Some(s) == [none |-> FALSE, v |-> s]
\* Python truthiness of an optional str: None and "" are false.
Truthy(o) == ~o.none /\ o.v # <<>>

NameFilters == { None, Some(<<>>), Some(<<" ", "a", " ", "B">>) }
DateFromFilters == { None, Some(D_0824) }
DateToFilters == { None, Some(<<>>), Some(D_0824) }
QueryNames == { <<"a", " ", "B">>, <<" ", "b", "a">> }
QueryMonths == { <<2025, 8>>, <<2025, 9>>, <<2024, 8>> }

(***************************************************************************)
(* Exceptions.                                                             *)
(***************************************************************************)
NoExc == [type |-> "", msg |-> ""]
Exc(t, m) == [type |-> t, msg |-> m]

MSG_DATE == "Date must be in YYYY-MM-DD format, e.g., 2025-08-24"
MSG_STATUS == "Status must be one of: Present, Absent, Late"
MSG_REMARKS == "Remarks are required when the student is Absent."
MSG_NAME == "Student name cannot be empty."
MSG_DUPLICATE == "Attendance already exists for {rec.student_name} on {rec.date}."

InvalidDate == Exc("ValueError", MSG_DATE)
InvalidStatus == Exc("ValueError", MSG_STATUS)
MissingRemarks == Exc("ValueError", MSG_REMARKS)
EmptyName == Exc("ValueError", MSG_NAME)
DuplicateRecord == Exc("ValueError", MSG_DUPLICATE)
NoAttribute(obj, a) == Exc("AttributeError", obj \o " object has no attribute " \o a)

(***************************************************************************)
(* AttendanceRecord                                                        *)
(***************************************************************************)
\* The attributes of an AttendanceRecord instance.
RecordAttrs == {"student_name", "date", "status", "remarks", "clean", "validate"}

clean(rec) ==
    Rec(Title(Strip(rec.student_name)), Strip(rec.date),
        Capitalize(Strip(rec.status)), Strip(rec.remarks))

\* Mutant of validate: the name is checked first.
validate_name_first(raw) ==
    LET rec == clean(raw)
    IN  IF rec.student_name = <<>> THEN [rec |-> rec, exc |-> EmptyName]
        ELSE IF ~strptime(rec.date).ok THEN [rec |-> rec, exc |-> InvalidDate]
        ELSE IF rec.status \notin Range(VALID_STATUSES)
             THEN [rec |-> rec, exc |-> InvalidStatus]
        ELSE IF rec.status = ABSENT /\ rec.remarks = <<>>
             THEN [rec |-> rec, exc |-> MissingRemarks]
        ELSE [rec |-> rec, exc |-> NoExc]

\* Mutant of validate: the remarks of an Absent record are not checked.
validate_no_remarks(raw) ==
    LET rec == clean(raw)
    IN  IF ~strptime(rec.date).ok THEN [rec |-> rec, exc |-> InvalidDate]
        ELSE IF rec.status \notin Range(VALID_STATUSES)
             THEN [rec |-> rec, exc |-> InvalidStatus]
        ELSE IF rec.student_name = <<>> THEN [rec |-> rec, exc |-> EmptyName]
        ELSE [rec |-> rec, exc |-> NoExc]

\* validate(): the cleaned record and the exception raised (NoExc: none).
validate(raw) ==
    LET rec == clean(raw)
    IN  IF ~strptime(rec.date).ok THEN [rec |-> rec, exc |-> InvalidDate]
        ELSE IF rec.status \notin Range(VALID_STATUSES)
             THEN [rec |-> rec, exc |-> InvalidStatus]
        ELSE IF rec.status = ABSENT /\ rec.remarks = <<>>
             THEN [rec |-> rec, exc |-> MissingRemarks]
        ELSE IF rec.student_name = <<>> THEN [rec |-> rec, exc |-> EmptyName]
        ELSE [rec |-> rec, exc |-> NoExc]

(***************************************************************************)
(* Files: json.dump / json.load and the csv writer.                        *)
(***************************************************************************)
Absent == [kind |-> "absent", body |-> <<>>]
\* Bytes that are not UTF-8.
Undecodable == [kind |-> "undecodable", body |-> <<>>]
\* Text that is not JSON.
Malformed == [kind |-> "malformed", body |-> <<>>]

\* json.dump of a list of dicts: an array of objects, each a list of
\* key/value pairs.
json_dump(data) ==
    [kind |-> "json",
     body |-> [i \in 1..Len(data) |->
                  [k \in 1..Len(fieldnames) |-> <<fieldnames[k], data[i][fieldnames[k]]>>]]]

\* The dict of a JSON object: for a key, the value of its last pair.
ObjectToDict(pairs) ==
    [key \in {pairs[k][1] : k \in 1..Len(pairs)} |->
        LET ks == {k \in 1..Len(pairs) : pairs[k][1] = key}
        IN  pairs[CHOOSE k \in ks : \A m \in ks : k >= m][2]]

\* _load(): the list and the exception raised.
_load(content) ==
    IF content.kind = "absent"
    THEN [data |-> <<>>, exc |-> Exc("FileNotFoundError", "No such file or directory")]
    ELSE IF content.kind = "undecodable"
    THEN [data |-> <<>>, exc |-> Exc("UnicodeDecodeError", "'utf-8' codec can't decode byte")]
    ELSE IF content.kind = "json"
    THEN [data |-> [i \in 1..Len(content.body) |-> ObjectToDict(content.body[i])],
          exc |-> NoExc]
    ELSE [data |-> <<>>, exc |-> NoExc]

\* _save(): the content written to self.path.
_save(data) == json_dump(data)

\* csv.DictWriter: the header row, then one row per dict.
csv_rows(data) ==
    <<fieldnames>> \o
    [i \in 1..Len(data) |-> [k \in 1..Len(fieldnames) |-> data[i][fieldnames[k]]]]

(***************************************************************************)
(* AttendanceDB.  Each method is an operator from the state before the     *)
(* call to the state after it, the exception raised and the value          *)
(* returned.                                                               *)
(***************************************************************************)
State == [fs |-> fs, folders |-> folders, attrs |-> attrs, path |-> path, _data |-> _data]

Result(st, exc, ret) == [st |-> st, exc |-> exc, ret |-> ret]

DBObject == "'AttendanceDB'"
RecordObject == "'AttendanceRecord'"

_init_(st, p) ==
    LET folder == dirname(p)
        folders1 == IF folder # "" /\ folder \notin st.folders
                    THEN st.folders \cup {folder} ELSE st.folders
        fs1 == IF st.fs[p].kind = "absent"
               THEN [st.fs EXCEPT ![p] = json_dump(<<>>)] ELSE st.fs
        ld == _load(fs1[p])
    IN  IF ld.exc # NoExc
        THEN Result([st EXCEPT !.fs = fs1, !.folders = folders1,
                               !.attrs = @ \cup {"path"}, !.path = p],
                    ld.exc, <<>>)
        ELSE Result([st EXCEPT !.fs = fs1, !.folders = folders1,
                               !.attrs = @ \cup {"path", "_data"}, !.path = p,
                               !._data = ld.data],
                    NoExc, <<>>)

\* Mutant of HasDuplicate: the loop looks at the first stored record only.
HasDuplicate_first_only(data, rec) ==
    /\ data # <<>>
    /\ Lower(data[1].student_name) = Lower(rec.student_name)
    /\ data[1].date = rec.date

\* The loop of add_record: a stored record with the same lower-cased name
\* and the same date.
HasDuplicate(data, rec) ==
    \E i \in 1..Len(data) :
        /\ Lower(data[i].student_name) = Lower(rec.student_name)
        /\ data[i].date = rec.date

\* Mutant of add_record: the record is appended and saved without the
\* duplicate loop.
add_record_unchecked(st, raw) ==
    LET v == validate(raw)
    IN  IF v.exc # NoExc THEN Result(st, v.exc, <<>>)
        ELSE IF "_data" \notin st.attrs
             THEN Result(st, NoAttribute(DBObject, "'_data'"), <<>>)
        ELSE Result([st EXCEPT !._data = Append(@, v.rec),
                               !.fs[st.path] = _save(Append(st._data, v.rec))],
                    NoExc, <<>>)

add_record(st, raw) ==
    LET v == validate(raw)
    IN  IF v.exc # NoExc THEN Result(st, v.exc, <<>>)
        ELSE IF "_data" \notin st.attrs
             THEN Result(st, NoAttribute(DBObject, "'_data'"), <<>>)
        ELSE IF HasDuplicate(st._data, v.rec) THEN Result(st, DuplicateRecord, <<>>)
        \* self.data.append(rec.dict_): the object has no attribute data
        \* (its list is _data), the record none called dict_.
        ELSE IF "data" \notin st.attrs
             THEN Result(st, NoAttribute(DBObject, "'data'"), <<>>)
        ELSE IF "dict_" \notin RecordAttrs
             THEN Result(st, NoAttribute(RecordObject, "'dict_'"), <<>>)
        ELSE Result([st EXCEPT !.fs[st.path] = _save(st._data)], NoExc, <<>>)

\* Mutant of list_records: the lower date bound is exclusive.
list_records_exclusive(st, student_name, date_from, date_to) ==
    IF "_data" \notin st.attrs
    THEN Result(st, NoAttribute(DBObject, "'_data'"), <<>>)
    ELSE LET r0 == st._data
             s == Lower(Strip(student_name.v))
             r1 == IF Truthy(student_name)
                   THEN SelectSeq(r0, LAMBDA r : Lower(r.student_name) = s) ELSE r0
             r2 == IF Truthy(date_from)
                   THEN SelectSeq(r1, LAMBDA r : StrLess(date_from.v, r.date)) ELSE r1
             r3 == IF Truthy(date_to)
                   THEN SelectSeq(r2, LAMBDA r : StrLe(r.date, date_to.v)) ELSE r2
         IN  Result(st, NoExc, r3)

list_records(st, student_name, date_from, date_to) ==
    IF "_data" \notin st.attrs
    THEN Result(st, NoAttribute(DBObject, "'_data'"), <<>>)
    ELSE LET r0 == st._data
             s == Lower(Strip(student_name.v))
             r1 == IF Truthy(student_name)
                   THEN SelectSeq(r0, LAMBDA r : Lower(r.student_name) = s) ELSE r0
             r2 == IF Truthy(date_from)
                   THEN SelectSeq(r1, LAMBDA r : StrGe(r.date, date_from.v)) ELSE r1
             r3 == IF Truthy(date_to)
                   THEN SelectSeq(r2, LAMBDA r : StrLe(r.date, date_to.v)) ELSE r2
         IN  Result(st, NoExc, r3)

\* round(present / total * 100, 2), in hundredths.  The quotient is never
\* half way between two hundredths for total < 32, so the rounding mode of
\* round() does not matter.
Percentage(present, total) ==
    IF total # 0 THEN (2 * 10000 * present + total) \div (2 * total) ELSE 0

\* Mutant of student_monthly_percentage: a Late day counts as present.
student_monthly_percentage_late(st, student_name, year, month) ==
    LET s == Lower(Strip(student_name))
    IN  IF "_data" \notin st.attrs
        THEN Result(st, NoAttribute(DBObject, "'_data'"), <<>>)
        ELSE LET InMonth(r) ==
                     /\ Lower(r.student_name) = s
                     /\ strptime(r.date).ok
                     /\ strptime(r.date).year = year
                     /\ strptime(r.date).month = month
                 chosen == SelectSeq(st._data, InMonth)
                 total == Len(chosen)
                 present == Len(SelectSeq(chosen, LAMBDA r : r.status \in {PRESENT, LATE}))
             IN  Result(st, NoExc, <<total, present, Percentage(present, total)>>)

student_monthly_percentage(st, student_name, year, month) ==
    LET s == Lower(Strip(student_name))
    IN  IF "_data" \notin st.attrs
        THEN Result(st, NoAttribute(DBObject, "'_data'"), <<>>)
        ELSE LET InMonth(r) ==
                     /\ Lower(r.student_name) = s
                     /\ strptime(r.date).ok
                     /\ strptime(r.date).year = year
                     /\ strptime(r.date).month = month
                 chosen == SelectSeq(st._data, InMonth)
                 total == Len(chosen)
                 present == Len(SelectSeq(chosen, LAMBDA r : r.status = PRESENT))
             IN  Result(st, NoExc, <<total, present, Percentage(present, total)>>)

export_csv(st, out_path) ==
    IF dirname(out_path) # "" /\ dirname(out_path) \notin st.folders
    THEN Result(st, Exc("FileNotFoundError", "No such file or directory"), <<>>)
    ELSE IF "_data" \notin st.attrs
    \* the file is open and the header written when self._data is looked up
    THEN Result([st EXCEPT !.fs[out_path] = [kind |-> "csv", body |-> <<fieldnames>>]],
                NoAttribute(DBObject, "'_data'"), <<>>)
    ELSE Result([st EXCEPT !.fs[out_path] = [kind |-> "csv", body |-> csv_rows(st._data)]],
                NoExc, out_path)

(***************************************************************************)
(* The state machine: an AttendanceDB object and the calls made on it.     *)
(* The class names its initializer _init_, so AttendanceDB() builds an     *)
(* object with no attributes and _init_ is a method called on it; until    *)
(* then every method that reads self._data raises AttributeError.  The     *)
(* methods are called with the default paths, as main_menu calls them.     *)
(* The backing file at the start is missing, unreadable, or an array of    *)
(* records with unique keys in the format _save writes.                    *)
(***************************************************************************)
InitialFiles ==
    {Absent, Undecodable, Malformed}
        \cup {_save(d) : d \in {e \in SeqsUpTo(StoredRecs, MaxFileRecs) : UniqueKeys(e)}}

Init ==
    /\ \E f \in InitialFiles : fs = [p \in Paths |-> IF p = DB_PATH THEN f ELSE Absent]
    /\ folders \in (IF fs[DB_PATH] = Absent THEN {{}, {"data"}} ELSE {{"data"}})
    /\ attrs = {}
    /\ path = ""
    /\ _data = <<>>
    /\ last = [op |-> "AttendanceDB", args |-> <<>>, exc |-> NoExc, ret |-> <<>>,
               pre |-> [attrs |-> {}, _data |-> <<>>, file |-> fs[DB_PATH]]]

Call(op, args, r) ==
    \E res \in {r} :
    /\ fs' = res.st.fs
    /\ folders' = res.st.folders
    /\ attrs' = res.st.attrs
    /\ path' = res.st.path
    /\ _data' = res.st._data
    /\ last' = [op |-> op, args |-> args, exc |-> res.exc, ret |-> res.ret,
                pre |-> [attrs |-> attrs, _data |-> _data, file |-> fs[DB_PATH]]]

Construct == \E p \in {DB_PATH} : Call("_init_", <<p>>, _init_(State, p))

AddRecord ==
    \E n \in RawNames, d \in RawDates, s \in RawStatuses, r \in RawRemarks :
        Call("add_record", Rec(n, d, s, r), add_record(State, Rec(n, d, s, r)))

ListRecords ==
    \E n \in NameFilters, df \in DateFromFilters, dt \in DateToFilters :
        Call("list_records", <<n, df, dt>>, list_records(State, n, df, dt))

MonthlyPercentage ==
    \E n \in QueryNames, ym \in QueryMonths :
        Call("student_monthly_percentage", <<n, ym[1], ym[2]>>,
             student_monthly_percentage(State, n, ym[1], ym[2]))

ExportCsv == \E p \in {CSV_PATH} : Call("export_csv", <<p>>, export_csv(State, p))

Next == Construct \/ AddRecord \/ ListRecords \/ MonthlyPercentage \/ ExportCsv

Spec == Init /\ [][Next]_vars

(***************************************************************************)
(* Properties.  last.pre is the object and its backing file before the     *)
(* last call, so each property relates the state before a call to the      *)
(* state after it.                                                         *)
(***************************************************************************)
Added == last.op = "add_record"
\* The store had its list when the last call was made.
Loaded == "_data" \in last.pre.attrs
\* The object's list and the backing file are what they were before the call.
StoreUnchanged ==
    /\ attrs = last.pre.attrs
    /\ _data = last.pre._data
    /\ fs[DB_PATH] = last.pre.file

\* The normalized form of a raw record: name trimmed and title-cased, status
\* trimmed and capitalized, date and remarks trimmed.
Normalized(raw) ==
    Rec(Title(Strip(raw.student_name)), Strip(raw.date),
        Capitalize(Strip(raw.status)), Strip(raw.remarks))

\* The four rules, on a raw record.
DateBad(raw) == ~strptime(Strip(raw.date)).ok
StatusBad(raw) == Capitalize(Strip(raw.status)) \notin {PRESENT, ABSENT, LATE}
RemarksBad(raw) == Capitalize(Strip(raw.status)) = ABSENT /\ Strip(raw.remarks) = <<>>
NameBad(raw) == Strip(raw.student_name) = <<>>
Valid(raw) == ~DateBad(raw) /\ ~StatusBad(raw) /\ ~RemarksBad(raw) /\ ~NameBad(raw)

\* A record of the list has the candidate's (lower-cased name, date).
KeyStored(data, raw) ==
    \E i \in 1..Len(data) :
        /\ Lower(data[i].student_name) = Lower(Normalized(raw).student_name)
        /\ data[i].date = Normalized(raw).date

C2_Original ==
    Added =>
        /\ last.exc \in {InvalidDate, InvalidStatus, MissingRemarks, EmptyName,
                         DuplicateRecord} => StoreUnchanged
        /\ RemarksBad(last.args) =>
               last.exc = MissingRemarks /\ Len(_data) = Len(last.pre._data)

\* C2 (amended): a failed add_record leaves the in-memory sequence and the
\* backing file as they were, and an add with a date that parses, status
\* Absent and empty remarks fails with MissingRemarks, the record count
\* unchanged.
C2_FailedAddKeepsState ==
    Added =>
        /\ last.exc \in {InvalidDate, InvalidStatus, MissingRemarks, EmptyName,
                         DuplicateRecord} => StoreUnchanged
        /\ (RemarksBad(last.args) /\ ~DateBad(last.args)) =>
               last.exc = MissingRemarks /\ Len(_data) = Len(last.pre._data)

\* C2 witness: an Absent record without remarks was refused by a store that
\* holds records.
C2_Witness ==
    /\ Added /\ Loaded /\ Len(_data) >= 1
    /\ RemarksBad(last.args)
    /\ last.exc = MissingRemarks

C4_ValidAddAppends ==
    (Added /\ Loaded /\ Valid(last.args) /\ ~KeyStored(last.pre._data, last.args)) =>
        /\ last.exc = NoExc
        /\ _data = Append(last.pre._data, Normalized(last.args))

\* C5: round trip: after the add of a valid record the store has no
\* duplicate of, a store constructed from the backing file holds the records
\* of before followed by that record, which is also the first store's
\* sequence.
C5_RoundTrip ==
    (Added /\ Loaded /\ Valid(last.args) /\ ~KeyStored(last.pre._data, last.args)) =>
        /\ _load(fs[path]).exc = NoExc
        /\ _load(fs[path]).data = Append(last.pre._data, Normalized(last.args))
        /\ _load(fs[path]).data = _data

\* C6: validation reports the first rule violated in the order date, status,
\* remarks of an Absent record, name; the four errors are distinct.
C6_FirstFailureWins ==
    Added =>
        /\ DateBad(last.args) => last.exc = InvalidDate
        /\ (~DateBad(last.args) /\ StatusBad(last.args)) => last.exc = InvalidStatus
        /\ (~DateBad(last.args) /\ ~StatusBad(last.args) /\ RemarksBad(last.args)) =>
               last.exc = MissingRemarks
        /\ (~DateBad(last.args) /\ ~StatusBad(last.args) /\ ~RemarksBad(last.args)
                /\ NameBad(last.args)) => last.exc = EmptyName
        /\ Cardinality({InvalidDate, InvalidStatus, MissingRemarks, EmptyName}) = 4

\* C6 witness: a record with an unparsable date, an invalid status and an
\* empty name was refused for its date.
C6_Witness ==
    /\ Added
    /\ DateBad(last.args) /\ StatusBad(last.args) /\ NameBad(last.args)
    /\ last.exc = InvalidDate

\* C7: constructing the store on a file with malformed content raises
\* nothing and gives an empty sequence; on a missing file it creates the file
\* with an empty array; the add of a valid record after a malformed load
\* leaves the file holding that record only.
C7_MalformedStorage ==
    /\ (last.op = "_init_" /\ last.pre.file.kind \in {"malformed", "undecodable"}) =>
           last.exc = NoExc /\ "_data" \in attrs /\ _data = <<>>
    /\ (last.op = "_init_" /\ last.pre.file = Absent) =>
           last.exc = NoExc /\ fs[DB_PATH] = json_dump(<<>>) /\ _data = <<>>
    /\ (Added /\ Loaded /\ last.pre.file.kind = "malformed" /\ last.pre._data = <<>>
            /\ Valid(last.args)) =>
           fs[DB_PATH] = json_dump(<<Normalized(last.args)>>)

\* A filter is omitted when it is None or the empty string.
Omitted(o) == o.none \/ o.v = <<>>

\* Whether a record passes the filters of list_records, an omitted filter
\* restricting nothing: the name equal to the filter ignoring case, the date
\* within the inclusive bounds.
PassesAsClaimed(r, n, df, dt) ==
    /\ Omitted(n) \/ Lower(r.student_name) = Lower(n.v)
    /\ Omitted(df) \/ ~StrLess(r.date, df.v)
    /\ Omitted(dt) \/ ~StrLess(dt.v, r.date)

\* The same, the name compared to the filter without its surrounding
\* whitespace.
Passes(r, n, df, dt) ==
    /\ Omitted(n) \/ Lower(r.student_name) = Lower(Strip(n.v))
    /\ Omitted(df) \/ ~StrLess(r.date, df.v)
    /\ Omitted(dt) \/ ~StrLess(dt.v, r.date)

\* C8 (as claimed): list_records returns, in storage order, exactly the
\* records that pass all the filters given, the name compared to the filter
\* ignoring case, and changes nothing.
C8_Original ==
    (last.op = "list_records" /\ Loaded) =>
        /\ last.exc = NoExc
        /\ last.ret = SelectSeq(_data, LAMBDA r :
                          PassesAsClaimed(r, last.args[1], last.args[2], last.args[3]))
        /\ StoreUnchanged

\* C8 (amended): list_records returns, in storage order, exactly the records
\* that pass all the filters given, the name compared ignoring case to the
\* filter without its surrounding whitespace, and changes nothing.
C8_ListRecords ==
    (last.op = "list_records" /\ Loaded) =>
        /\ last.exc = NoExc
        /\ last.ret = SelectSeq(_data, LAMBDA r :
                          Passes(r, last.args[1], last.args[2], last.args[3]))
        /\ StoreUnchanged

\* C8 witness: the three filters were given and some but not all of the
\* records were returned, one of them dated on a bound.
C8_Witness ==
    /\ last.op = "list_records" /\ Loaded
    /\ \A k \in 1..3 : Truthy(last.args[k])
    /\ Len(last.ret) >= 1 /\ Len(last.ret) < Len(_data)
    /\ last.ret[1].date = last.args[2].v

\* What student_monthly_percentage is to return for the name key s.
MonthlyResult(s, year, month, ret) ==
    LET days == {i \in 1..Len(_data) :
                    /\ Lower(_data[i].student_name) = s
                    /\ strptime(_data[i].date).ok
                    /\ strptime(_data[i].date).year = year
                    /\ strptime(_data[i].date).month = month}
        present == {i \in days : _data[i].status = PRESENT}
    IN  /\ ret[1] = Cardinality(days)
        /\ ret[2] = Cardinality(present)
        /\ ret[2] <= ret[1]
        \* ret[3], in hundredths, is the hundredth nearest to present/total*100
        /\ IF ret[1] = 0 THEN ret[3] = 0
           ELSE LET d == ret[3] * ret[1] - 10000 * ret[2]
                IN  2 * d <= ret[1] /\ -2 * d <= ret[1]

\* C9 (as claimed): student_monthly_percentage returns the number of records
\* of the month whose name is the given name ignoring case, the number of
\* them that are Present, and the rounded percentage; (0, 0, 0.0) when none
\* matches; records with unparsable dates are skipped.
C9_Original ==
    (last.op = "student_monthly_percentage" /\ Loaded) =>
        /\ last.exc = NoExc
        /\ MonthlyResult(Lower(last.args[1]), last.args[2], last.args[3], last.ret)

\* C9 (amended): the same, the name compared ignoring case to the given name
\* without its surrounding whitespace.
C9_MonthlyPercentage ==
    (last.op = "student_monthly_percentage" /\ Loaded) =>
        /\ last.exc = NoExc
        /\ MonthlyResult(Lower(Strip(last.args[1])), last.args[2], last.args[3], last.ret)

\* C9 witness: three records of the student, one Present and one Late in
\* the month and one with an unparsable date: two days, one present, 50.00
\* percent.
C9_Witness ==
    /\ last.op = "student_monthly_percentage" /\ Loaded
    /\ last.ret = <<2, 1, 5000>>
    /\ \E i \in 1..Len(_data) : _data[i].status = LATE
    /\ \E i \in 1..Len(_data) :
           /\ Lower(_data[i].student_name) = Lower(Strip(last.args[1]))
           /\ ~strptime(_data[i].date).ok

\* C10: a raw record that validation accepts is accepted again in its
\* normalized form, and normalizing it again changes none of its four fields.
C10_Idempotent ==
    (Added /\ validate(last.args).exc = NoExc) =>
        validate(validate(last.args).rec) =
            [rec |-> validate(last.args).rec, exc |-> NoExc]

\* C10 witness: an accepted raw record whose name, date and status
\* normalization changed.
C10_Witness ==
    /\ Added /\ validate(last.args).exc = NoExc
    /\ validate(last.args).rec.student_name # last.args.student_name
    /\ validate(last.args).rec.date # last.args.date
    /\ validate(last.args).rec.status # last.args.status

====
